---- MODULE Spec2Model ----
(***************************************************************************)
(* Zimcoin consensus core: transactions, blocks, the chain state machine   *)
(* (append, undo, reorg), difficulty retargeting and mining.               *)
(*                                                                         *)
(* Byte strings are modelled by numbers (a 20-byte address by the pair     *)
(* <<length, value>>, because the code tests its length).  SHA-1 and       *)
(* SHA-256 are deterministic folds over the components they are fed, with  *)
(* the 256-bit output scaled down to HashBits bits.  Python object         *)
(* identity is modelled where the code relies on it: a dict built from     *)
(* another dict shares its UserState objects, a deepcopy shares none.      *)
(***************************************************************************)
EXTENDS Integers, Sequences, FiniteSets, TLC

\* ------------------------------------------------------------------ bounds
MaxChain == 2          \* longest chain the model builds
MaxBranch == 2         \* longest new_branch handed to verify_reorg
MaxTxs == 2            \* most transactions in a candidate block
MaxRejected == 1       \* blocks are offered until this many rejected ones have changed the state
HashBits == 24         \* width standing for the 256 bits of a block id
DigestBits == 15       \* bits of the model digest that vary
MantissaBits == 6      \* width standing for the 53-bit significand of a float
MaxLong == 12          \* longest chain of the one-miner runs that reach the retarget
MaxMineDifficulty == 10000
MaxFork == 14
MaxForkDifficulty == 4000   \* highest difficulty at which those runs mine a block

\* ------------------------------------------------------- program constants
MINING_REWARD == 10000
BOOTSTRAP_DIFFICULTY == 1000
RETARGET_WINDOW == 10
TARGET_INTERVAL == 120
MAX_TRANSACTIONS == 25
ADDRESS_LENGTH == 20
DEFAULT_NONCE == -1

ALICE_KEY == 1
BOB_KEY == 2
Keys == {ALICE_KEY, BOB_KEY}

\* ------------------------------------------------------------ helpers
RECURSIVE Pow2(_)
Pow2(n) == IF n = 0 THEN 1 ELSE 2 * Pow2(n - 1)

RECURSIVE SumSeq(_)
SumSeq(s) == IF s = <<>> THEN 0 ELSE Head(s) + SumSeq(Tail(s))

\* ------------------------------------------------- blockchain_utils.py
\* sender_secret_key.public_key(): the public half of a key pair
public_key(sk) == 10 + sk

\* pk_serialize(pk, 'ser'): the DER bytes of a public key
pk_serialize(pk) == 300 + pk

\* hashes.Hash(SHA1): a 20-byte digest of the bytes fed to it
SHA1(msg) == <<ADDRESS_LENGTH, (7 * msg + 3) % 64>>

generate_address(pk) == SHA1(pk_serialize(pk))

ALICE_ADDRESS == generate_address(public_key(ALICE_KEY))
BOB_ADDRESS == generate_address(public_key(BOB_KEY))

\* len(b) of an address-typed byte string
len(b) == b[1]

\* the number a byte string contributes to a digest
ByteCode(b) == 64 * b[1] + b[2]

\* the number of digests of the model, and 2**256 at the model's width
DigestSpace == Pow2(DigestBits)
HashSpace == Pow2(HashBits)

\* digest.update(e): the running SHA-256 state after feeding one component
DigestUpdate(h, e) == (33 * h + e + 1) % DigestSpace

RECURSIVE DigestFeed(_, _)
DigestFeed(h, components) ==
    IF components = <<>> THEN h
    ELSE DigestFeed(DigestUpdate(h, Head(components)), Tail(components))

\* sha256_hash(message_components, finalize = False): the unfinalized digest
sha256_digest(message_components) == DigestFeed(5, message_components)

\* digest.finalize(): the digest of the bytes fed so far
DigestFinalize(h) == (20021 * h + 977) % DigestSpace

\* sha256_hash(message_components)
sha256_hash(message_components) == DigestFinalize(sha256_digest(message_components))

\* sender_secret_key.sign(msg_hash, ECDSA): a signature names its signer and message
ecdsa_sign(sk, msg_hash) == [key |-> public_key(sk), msg |-> msg_hash]

\* decoded_public_key.verify(signature, msg_hash, ECDSA)
ecdsa_verify(pk, signature, msg_hash) ==
    signature.key = pk /\ signature.msg = msg_hash

SigCode(signature) == 101 * signature.key + signature.msg

generate_signature(sk, recipient_hash, amount, fee, nonce) ==
    ecdsa_sign(sk, sha256_hash(<<ByteCode(recipient_hash), amount, fee, nonce>>))

\* ----------------------------------------------------- transactions.py
Transaction(sender_hash, recipient_hash, sender_public_key, amount, fee, nonce, signature, txid) ==
    [sender_hash |-> sender_hash, recipient_hash |-> recipient_hash,
     sender_public_key |-> sender_public_key, amount |-> amount, fee |-> fee,
     nonce |-> nonce, signature |-> signature, txid |-> txid]

TxId(sender_hash, recipient_hash, pk, amount, fee, nonce, signature) ==
    sha256_hash(<<ByteCode(sender_hash), ByteCode(recipient_hash), pk_serialize(pk),
                  amount, fee, nonce, SigCode(signature)>>)

create_signed_transaction(sk, recipient_hash, amount, fee, nonce) ==
    LET pk == public_key(sk)
        sender_hash == generate_address(pk)
        signature == generate_signature(sk, recipient_hash, amount, fee, nonce)
        txid == TxId(sender_hash, recipient_hash, pk, amount, fee, nonce, signature)
    IN Transaction(sender_hash, recipient_hash, pk, amount, fee, nonce, signature, txid)

\* Transaction.verify: "" when every check passes, else the first failing check
TxVerify(t, sender_balance, sender_previous_nonce) ==
    IF len(t.sender_hash) # ADDRESS_LENGTH THEN "Sender hash should should be 20 bytes long"
    ELSE IF t.sender_hash # generate_address(t.sender_public_key)
         THEN "Sender hash be SHA1 hash of sender public key"
    ELSE IF len(t.recipient_hash) # ADDRESS_LENGTH
         THEN "Recipient hash should should be 20 bytes long"
    ELSE IF ~(t.amount > 0 /\ t.amount <= sender_balance) THEN "Balance too small"
    ELSE IF ~(t.fee >= 0 /\ t.fee <= t.amount) THEN "Fee should range between zero and amount"
    ELSE IF t.nonce # sender_previous_nonce + 1 THEN "Invalid nonce"
    ELSE IF t.txid # TxId(t.sender_hash, t.recipient_hash, t.sender_public_key,
                          t.amount, t.fee, t.nonce, t.signature)
         THEN "Transaction ID does not correspond to the hash of the transaction components"
    ELSE IF ~ecdsa_verify(t.sender_public_key, t.signature,
                          sha256_hash(<<ByteCode(t.recipient_hash), t.amount, t.fee, t.nonce>>))
         THEN "InvalidSignature"
    ELSE ""

\* ----------------------------------------------------------- blocks.py
UserState(balance, nonce) == [balance |-> balance, nonce |-> nonce]

\* UserState.earn: the updated balance
earn(self, amount, undo) ==
    IF ~undo THEN self.balance + amount ELSE self.balance - amount

\* spend with a fault: an undo returns the amount but leaves the nonce raised
spend_undo_keeps_nonce(self, amount, undo) ==
    IF ~undo THEN <<self.balance - amount, self.nonce + 1>>
    ELSE <<self.balance + amount, self.nonce>>

\* UserState.spend: the updated balance and nonce
spend(self, amount, undo) ==
    IF ~undo THEN <<self.balance - amount, self.nonce + 1>>
    ELSE <<self.balance + amount, self.nonce - 1>>

\* defaultdict.__getitem__: a read of a missing key stores the default first
Touch(states, k) ==
    IF k \in DOMAIN states THEN states
    ELSE [a \in DOMAIN states \cup {k} |->
            IF a = k THEN UserState(0, DEFAULT_NONCE) ELSE states[a]]

Block(previous, height, miner, transactions, timestamp, difficulty, block_id, nonce) ==
    [previous |-> previous, height |-> height, miner |-> miner,
     transactions |-> transactions, timestamp |-> timestamp,
     difficulty |-> difficulty, block_id |-> block_id, nonce |-> nonce]

\* b''.join([t.txid for t in transactions]), as the pieces a digest is fed
TransactionIds(transactions) == [i \in 1..Len(transactions) |-> transactions[i].txid]

\* the pre-image of a block id without its nonce
BlockDescription(previous, miner, transactions, timestamp, difficulty) ==
    <<previous, ByteCode(miner)>> \o TransactionIds(transactions)
        \o <<timestamp, difficulty>>

BlockIdOf(previous, miner, transactions, timestamp, difficulty, nonce) ==
    sha256_hash(BlockDescription(previous, miner, transactions, timestamp, difficulty)
                \o <<nonce>>)

\* the number of binary digits of n
RECURSIVE BitLength(_)
BitLength(n) == IF n = 0 THEN 0 ELSE 1 + BitLength(n \div 2)

\* a / b rounded to the nearest integer, a tie going to the even one
RoundHalfEven(a, b) ==
    IF 2 * (a % b) < b THEN a \div b
    ELSE IF 2 * (a % b) > b THEN (a \div b) + 1
    ELSE IF (a \div b) % 2 = 0 THEN a \div b
    ELSE (a \div b) + 1

\* the exact quotient a / b with digits binary digits before the point, rounded to
\* a significand of MantissaBits digits; what is returned is the integer part of
\* the rounded value, which is all a comparison with an integer reads
RoundToSignificand(a, b, digits) ==
    IF digits >= MantissaBits
    THEN RoundHalfEven(a, b * Pow2(digits - MantissaBits)) * Pow2(digits - MantissaBits)
    ELSE RoundHalfEven(a * Pow2(MantissaBits - digits), b) \div Pow2(MantissaBits - digits)

\* a / b of two ints: Python's true division, the float nearest the exact quotient
TrueDiv(a, b) == RoundToSignificand(a, b, BitLength(a \div b))

\* the same quotient with the division done with a floor instead

\* (2**256)/difficulty, the largest admissible block id
PowTarget(difficulty) == TrueDiv(HashSpace, difficulty)

\* defaultdict(factory, previous_user_states): the new dict holds the very UserState
\* objects of the old one, so these keys' objects are shared by both dicts
defaultdict_shared(previous_user_states) == DOMAIN previous_user_states

\* copy.deepcopy(user_states): every UserState is a new object, none is shared
deepcopy_shared(user_states) == {}

\* what the holder of dict `held` sees after `mutated` was written through the
\* objects the two dicts share
SeenThrough(held, mutated, shared) ==
    [k \in DOMAIN held |-> IF k \in shared THEN mutated[k] ELSE held[k]]

\* states[k].balance = states[k].earn(amount, undo)
Earn(states, k, amount, undo) ==
    [Touch(states, k) EXCEPT ![k] = UserState(earn(@, amount, undo), @.nonce)]

\* states[k].balance, states[k].nonce = states[k].spend(amount, undo)
Spend(states, k, amount, undo) ==
    [Touch(states, k) EXCEPT
        ![k] = UserState(spend(@, amount, undo)[1], spend(@, amount, undo)[2])]

\* the three updates with a fault: the recipient is credited the full amount
Transfer_full_credit(miner, t, u) ==
    Earn(Spend(Earn(u, miner, t.fee, FALSE), t.sender_hash, t.amount, FALSE),
         t.recipient_hash, t.amount, FALSE)

\* the three updates with a fault: each is computed from the balances read before
\* the first, so a later update of the same account overwrites an earlier one
Transfer_stale_reads(miner, t, u) ==
    Earn(Spend(Earn(u, miner, t.fee, FALSE), t.sender_hash, t.amount, FALSE),
         t.recipient_hash,
         (t.amount - t.fee) + (IF t.recipient_hash = t.sender_hash THEN t.amount ELSE 0),
         FALSE)

\* the three updates of update_states for a verified transaction t: the fee to the
\* miner, the amount off the sender, amount - fee to the recipient
Transfer(miner, t, u) ==
    Earn(Spend(Earn(u, miner, t.fee, FALSE), t.sender_hash, t.amount, FALSE),
         t.recipient_hash, t.amount - t.fee, FALSE)

\* assert t.verify(...) with outcome e on dict u, then the updates
VerifyThenTransfer(miner, t, u, e) ==
    IF e # "" THEN [err |-> e, states |-> u]
    ELSE [err |-> "", states |-> Transfer(miner, t, u)]

\* the reads of the sender's balance and nonce on dict u, where the sender is present
ReadSender(miner, t, u) ==
    VerifyThenTransfer(miner, t, u,
                       TxVerify(t, u[t.sender_hash].balance, u[t.sender_hash].nonce))

\* the body of the transaction loop of update_states for transaction t
ApplyTransaction(miner, t, u) == ReadSender(miner, t, Touch(u, t.sender_hash))

RECURSIVE ApplyTransactions(_, _, _)

\* the loop after a transaction with outcome r: an AssertionError ends it
ApplyRest(miner, rest, r) ==
    IF r.err # "" THEN r ELSE ApplyTransactions(miner, rest, r.states)

ApplyTransactions(miner, transactions, u) ==
    IF transactions = <<>> THEN [err |-> "", states |-> u]
    ELSE ApplyRest(miner, Tail(transactions),
                   ApplyTransaction(miner, Head(transactions), u))

\* what update_states leaves: r is the outcome of the loop on the dict it built
UpdateResult(previous_user_states, r) ==
    [err |-> r.err, updated |-> r.states,
     previous |-> SeenThrough(previous_user_states, r.states,
                              defaultdict_shared(previous_user_states))]

\* the reward credited after the loop, when the loop came to its end
RewardLast(miner, r) ==
    [err |-> r.err,
     states |-> IF r.err = "" THEN Earn(r.states, miner, MINING_REWARD, FALSE)
                ELSE r.states]

\* update_states with a fault: the transactions are verified before the reward is
\* credited
update_states_reward_last(self, previous_user_states) ==
    UpdateResult(previous_user_states,
                 RewardLast(self.miner,
                            ApplyTransactions(self.miner, self.transactions,
                                              previous_user_states)))

\* Block.update_states: err is "" or the failed check; updated is the dict the call
\* builds; previous is the caller's dict as the call leaves it
update_states(self, previous_user_states) ==
    UpdateResult(previous_user_states,
                 ApplyTransactions(self.miner, self.transactions,
                                   Earn(previous_user_states, self.miner,
                                        MINING_REWARD, FALSE)))

\* the difficulty check with a fault: a block harder than asked is let through
difficulty_at_least(self, difficulty) == self.difficulty >= difficulty

\* the difficulty check of verify_and_get_changes
difficulty_matches(self, difficulty) == self.difficulty = difficulty

\* Block.verify_and_get_changes
verify_and_get_changes(self, difficulty, previous_user_states) ==
    LET fail(e) == [err |-> e, updated |-> previous_user_states,
                    previous |-> previous_user_states]
    IN IF ~difficulty_matches(self, difficulty) THEN fail("Incorrect difficulty")
       ELSE IF self.block_id # BlockIdOf(self.previous, self.miner, self.transactions,
                                         self.timestamp, difficulty, self.nonce)
            THEN fail("Block ID does not correspond to the SHA256 hash")
       ELSE IF Len(self.transactions) > MAX_TRANSACTIONS
            THEN fail("Block can only contain at most 25 transactions")
       ELSE IF len(self.miner) # ADDRESS_LENGTH THEN fail("Miner hash should be 20 bytes long")
       ELSE IF self.difficulty = 0 THEN fail("ZeroDivisionError")
       ELSE IF ~(self.block_id <= PowTarget(self.difficulty))
            THEN fail("Invalid proof of work")
       ELSE update_states(self, previous_user_states)

\* the body of the transaction loop of get_changes_for_undo for transaction t
UndoTransaction(miner, t, u) ==
    Earn(Spend(Earn(u, miner, t.fee, TRUE), t.sender_hash, t.amount, TRUE),
         t.recipient_hash, t.amount - t.fee, TRUE)

RECURSIVE UndoTransactions(_, _, _)
UndoTransactions(miner, transactions, u) ==
    IF transactions = <<>> THEN u
    ELSE UndoTransactions(miner, Tail(transactions),
                          UndoTransaction(miner, Head(transactions), u))

\* Block.get_changes_for_undo: works on a deep copy of user_states_after
get_changes_for_undo(self, user_states_after) ==
    UndoTransactions(self.miner, self.transactions,
                     Earn(user_states_after, self.miner, MINING_REWARD, TRUE))

\* puzzle_solver with a fault: only every second nonce is tried
RECURSIVE puzzle_solver_every_second(_, _, _)
puzzle_solver_every_second(block_description, target, candidate_nonce) ==
    IF DigestFinalize(DigestUpdate(block_description, candidate_nonce)) <= target
    THEN candidate_nonce
    ELSE puzzle_solver_every_second(block_description, target, candidate_nonce + 2)

\* puzzle_solver: the first nonce, from candidate_nonce upwards, whose digest meets target
RECURSIVE puzzle_solver(_, _, _)
puzzle_solver(block_description, target, candidate_nonce) ==
    IF DigestFinalize(DigestUpdate(block_description, candidate_nonce)) <= target
    THEN candidate_nonce
    ELSE puzzle_solver(block_description, target, candidate_nonce + 1)

\* the end of mine_block: the block id of the header with the nonce found, and the Block
MinedWith(previous, height, miner, transactions, timestamp, difficulty, nonce) ==
    Block(previous, height, miner, transactions, timestamp, difficulty,
          BlockIdOf(previous, miner, transactions, timestamp, difficulty, nonce), nonce)

mine_block(previous, height, miner, transactions, timestamp, difficulty) ==
    MinedWith(previous, height, miner, transactions, timestamp, difficulty,
              puzzle_solver(sha256_digest(BlockDescription(previous, miner, transactions,
                                                           timestamp, difficulty)),
                            PowTarget(difficulty), 0))

\* ------------------------------------------------------------ chain.py
ZERO_PREVIOUS == 0     \* bytes(32), read as a number

BlockchainState(longest_chain, user_states, total_difficulty) ==
    [longest_chain |-> longest_chain, user_states |-> user_states,
     total_difficulty |-> total_difficulty]

\* BlockchainState([], dict(), 0)
EmptyState == BlockchainState(<<>>, <<>>, 0)

Last(s) == s[Len(s)]
ButLast(s) == SubSeq(s, 1, Len(s) - 1)

\* calculate_difficulty with a fault: the multiplication is done before the division
calculate_difficulty_multiply_first(self) ==
    LET chain == self.longest_chain
        n == Len(chain)
    IN IF n <= RETARGET_WINDOW THEN BOOTSTRAP_DIFFICULTY
       ELSE LET total_difficulty_for_period ==
                    SumSeq([i \in 1..RETARGET_WINDOW |->
                                chain[n - RETARGET_WINDOW + i].difficulty])
                elapsed == chain[n].timestamp - chain[n - RETARGET_WINDOW].timestamp
                total_time_for_period == IF elapsed = 0 THEN 1 ELSE elapsed
            IN (total_difficulty_for_period * TARGET_INTERVAL) \div total_time_for_period

\* BlockchainState.calculate_difficulty
calculate_difficulty(self) ==
    LET chain == self.longest_chain
        n == Len(chain)
    IN IF n <= RETARGET_WINDOW THEN BOOTSTRAP_DIFFICULTY
       ELSE LET total_difficulty_for_period ==
                    SumSeq([i \in 1..RETARGET_WINDOW |->
                                chain[n - RETARGET_WINDOW + i].difficulty])
                elapsed == chain[n].timestamp - chain[n - RETARGET_WINDOW].timestamp
                total_time_for_period == IF elapsed = 0 THEN 1 ELSE elapsed
            IN (total_difficulty_for_period \div total_time_for_period) * TARGET_INTERVAL

\* the previous check with a fault: only the first block's previous is looked at
previous_matches_genesis_only(self, block) ==
    Len(self.longest_chain) = 0 => block.previous = ZERO_PREVIOUS

\* the parent check with a fault: the genesis value passes at every height
previous_matches_or_genesis(self, block) ==
    \/ block.previous = ZERO_PREVIOUS
    \/ Len(self.longest_chain) > 0 /\ block.previous = Last(self.longest_chain).block_id

\* the parent check of verify_and_apply_block
previous_matches(self, block) ==
    IF Len(self.longest_chain) = 0 THEN block.previous = ZERO_PREVIOUS
    ELSE block.previous = Last(self.longest_chain).block_id

\* the timestamp check with a fault: a block at its parent's timestamp is refused
timestamp_after_parent(self, block) ==
    Len(self.longest_chain) > 0 => block.timestamp > Last(self.longest_chain).timestamp

\* the timestamp check of verify_and_apply_block
timestamp_not_before_parent(self, block) ==
    Len(self.longest_chain) > 0 => block.timestamp >= Last(self.longest_chain).timestamp

\* the try block of verify_and_apply_block, r what verify_and_get_changes left
Applied(self, block, r) ==
    IF r.err # ""
    THEN [err |-> r.err,
          state |-> [self EXCEPT !.user_states = r.previous],
          previous |-> r.previous]
    ELSE [err |-> "",
          state |-> BlockchainState(Append(self.longest_chain, block), r.updated,
                                    self.total_difficulty + block.difficulty),
          previous |-> r.previous]

\* verify_and_apply_block with a fault: the parent is checked before the height
verify_and_apply_block_previous_first(self, block) ==
    LET chain == self.longest_chain
        fail(e) == [err |-> e, state |-> self, previous |-> self.user_states]
    IN IF ~previous_matches(self, block)
       THEN fail("Previous block ID should match ID of last block in chain")
       ELSE IF block.height # Len(chain)
            THEN fail("Height of block should equal length of valid chain")
       ELSE IF ~timestamp_not_before_parent(self, block)
            THEN fail("Timestamp should not be less than that of parent block")
       ELSE Applied(self, block,
                    verify_and_get_changes(block, calculate_difficulty(self),
                                           self.user_states))

\* BlockchainState.verify_and_apply_block: err is "" or the failed check, state is
\* the chain state as the call leaves it, previous is the dict the call was
\* entered with (self.user_states) as the call leaves it
verify_and_apply_block(self, block) ==
    LET chain == self.longest_chain
        fail(e) == [err |-> e, state |-> self, previous |-> self.user_states]
    IN IF block.height # Len(chain)
       THEN fail("Height of block should equal length of valid chain")
       ELSE IF ~previous_matches(self, block)
            THEN fail("Previous block ID should match ID of last block in chain")
       ELSE IF ~timestamp_not_before_parent(self, block)
            THEN fail("Timestamp should not be less than that of parent block")
       ELSE Applied(self, block,
                    verify_and_get_changes(block, calculate_difficulty(self),
                                           self.user_states))

\* undo_last_block with a fault: the removed block's difficulty stays counted
undo_last_block_keeps_total(self) ==
    IF self.longest_chain = <<>>
    THEN [err |-> "IndexError: pop from empty list", state |-> self]
    ELSE LET removed_block == Last(self.longest_chain)
         IN [err |-> "",
             state |-> BlockchainState(
                 ButLast(self.longest_chain),
                 get_changes_for_undo(removed_block, self.user_states),
                 self.total_difficulty)]

\* BlockchainState.undo_last_block
undo_last_block(self) ==
    IF self.longest_chain = <<>>
    THEN [err |-> "IndexError: pop from empty list", state |-> self]
    ELSE LET removed_block == Last(self.longest_chain)
         IN [err |-> "",
             state |-> BlockchainState(
                 ButLast(self.longest_chain),
                 get_changes_for_undo(removed_block, self.user_states),
                 self.total_difficulty - removed_block.difficulty)]

\* copy.deepcopy(old_state.longest_chain): TRUE iff the copy is the very list copied
start_chain_is_old_chain(longest_chain) == FALSE

\* a shallow copy in place of the deep one: every UserState object is shared
start_states_aliased(user_states) == DOMAIN user_states

\* copy.deepcopy(old_state.user_states): the keys whose UserState object the copy
\* shares with the dict copied
start_states_shared(user_states) == deepcopy_shared(user_states)

\* A verify_reorg in progress: new_state, old_state as it now reads, whether the
\* two hold the same chain list, and the keys whose UserState objects they share.
ReorgWork(new_state, old_state, same_chain, shared) ==
    [new_state |-> new_state, old_state |-> old_state, same_chain |-> same_chain,
     shared |-> shared, err |-> ""]

\* old_state after new_state was changed to `now`, its dict on entry reading `previous`
OldSeen(w, now, previous) ==
    BlockchainState(
        IF w.same_chain THEN now.longest_chain ELSE w.old_state.longest_chain,
        SeenThrough(w.old_state.user_states, previous, w.shared),
        w.old_state.total_difficulty)

\* the work record after new_state.undo_last_block() has left new_state as `now`
ReorgUndone(w, now) ==
    [w EXCEPT !.new_state = now,
              !.old_state = OldSeen(w, now, w.new_state.user_states),
              !.shared = w.shared \cap deepcopy_shared(w.new_state.user_states)]

\* the undo loop of verify_reorg: pops while the tip's height is >= split_height
\* (the reversed() iterator reads the live list, so after each pop it is at the new tip)
RECURSIVE ReorgUndo(_, _)
ReorgUndo(w, split_height) ==
    IF w.new_state.longest_chain # <<>>
       /\ Last(w.new_state.longest_chain).height >= split_height
    THEN ReorgUndo(ReorgUndone(w, undo_last_block(w.new_state).state), split_height)
    ELSE w

\* the work record after new_state.verify_and_apply_block(block) with outcome r
ReorgApplied(w, r) ==
    [w EXCEPT !.new_state = r.state,
              !.old_state = OldSeen(w, r.state, r.previous),
              !.shared = IF r.err = ""
                         THEN w.shared \cap defaultdict_shared(w.new_state.user_states)
                         ELSE w.shared,
              !.err = r.err]

RECURSIVE ReorgApply(_, _)

\* the replay loop after a block: an AssertionError ends it
ReorgRest(w, rest) == IF w.err # "" THEN w ELSE ReorgApply(w, rest)

\* the replay loop of verify_reorg: stops at the first block that fails
ReorgApply(w, new_branch) ==
    IF new_branch = <<>> THEN w
    ELSE ReorgRest(ReorgApplied(w, verify_and_apply_block(w.new_state, Head(new_branch))),
                   Tail(new_branch))

\* the comparison with a fault: an equal total is let through
as_much_proof_of_work(new_total_difficulty, old_total_difficulty) ==
    new_total_difficulty >= old_total_difficulty

\* the proof-of-work comparison that ends verify_reorg
more_proof_of_work(new_total_difficulty, old_total_difficulty) ==
    new_total_difficulty > old_total_difficulty

\* the end of verify_reorg with a fault: the longer chain wins, not the heavier
ReorgOutcome_longest_chain(w) ==
    IF w.err # ""
    THEN [err |-> w.err, new_state |-> w.new_state, old_state |-> w.old_state]
    ELSE IF ~(Len(w.new_state.longest_chain) > Len(w.old_state.longest_chain))
    THEN [err |-> "New chain has lower total difficulty than old chain",
          new_state |-> w.new_state, old_state |-> w.old_state]
    ELSE [err |-> "", new_state |-> w.new_state, old_state |-> w.old_state]

\* the end of verify_reorg, w the work record the two loops left
ReorgOutcome(w) ==
    IF w.err # ""
    THEN [err |-> w.err, new_state |-> w.new_state, old_state |-> w.old_state]
    ELSE IF ~more_proof_of_work(w.new_state.total_difficulty, w.old_state.total_difficulty)
    THEN [err |-> "New chain has lower total difficulty than old chain",
          new_state |-> w.new_state, old_state |-> w.old_state]
    ELSE [err |-> "", new_state |-> w.new_state, old_state |-> w.old_state]

\* verify_reorg: err is "" or the failure, new_state the state returned on success,
\* old_state the caller's state as the call leaves it
verify_reorg(old_state, new_branch) ==
    IF new_branch = <<>>
    THEN [err |-> "IndexError: list index out of range", new_state |-> old_state,
          old_state |-> old_state]
    ELSE ReorgOutcome(
            ReorgApply(
                ReorgUndo(ReorgWork(old_state, old_state,
                                    start_chain_is_old_chain(old_state.longest_chain),
                                    start_states_shared(old_state.user_states)),
                          new_branch[1].height),
                new_branch))

\* ------------------------------------------------------- the callers' inputs
\* (test2_chain.py builds its blocks and branches this way: mine_block on the
\*  tip, or on an earlier block for a competing branch)
Addresses == {ALICE_ADDRESS, BOB_ADDRESS}
SHORT_ADDRESS == <<ADDRESS_LENGTH - 1, 1>>
Amounts == {3000}
Fees == {25}
Nonces == {0}
TimeSteps == {TARGET_INTERVAL}

\* who pays whom: Alice pays Bob, Bob pays Alice
Transfers == {<<ALICE_KEY, BOB_ADDRESS>>, <<BOB_KEY, ALICE_ADDRESS>>}

SignedTxs ==
    {create_signed_transaction(p[1], p[2], a, f, n) :
        p \in Transfers, a \in Amounts, f \in Fees, n \in Nonces}

\* a transfer out of Alice's account made and signed by Bob with his own key
ForgedTx ==
    LET t == create_signed_transaction(BOB_KEY, BOB_ADDRESS, 3000, 25, 0)
    IN Transaction(ALICE_ADDRESS, t.recipient_hash, t.sender_public_key, t.amount, t.fee,
                   t.nonce, t.signature,
                   TxId(ALICE_ADDRESS, t.recipient_hash, t.sender_public_key, t.amount,
                        t.fee, t.nonce, t.signature))

TxPool == SignedTxs \cup {ForgedTx}

RECURSIVE TxListsOn(_, _, _)

\* the lists that start with t, r the outcome of t on the account map
TxListsFrom(miner, t, r, n) ==
    IF r.err # "" THEN {<<t>>}
    ELSE {<<t>> \o rest : rest \in TxListsOn(miner, r.states, n - 1)}

\* the transaction lists of at most n transactions offered to a block of `miner`
\* on account map u: every transaction but the last is one the block accepts
TxListsOn(miner, u, n) ==
    IF n = 0 THEN {<<>>}
    ELSE {<<>>} \cup UNION {TxListsFrom(miner, t, ApplyTransaction(miner, t, u), n) :
                            t \in TxPool}

\* the account map a block of `miner` sees after its reward
Rewarded(self, miner) ==
    update_states(Block(0, 0, miner, <<>>, 0, 0, 0, 0), self.user_states).updated

TipId(self) ==
    IF self.longest_chain = <<>> THEN ZERO_PREVIOUS ELSE Last(self.longest_chain).block_id

TipTime(self) ==
    IF self.longest_chain = <<>> THEN 0 ELSE Last(self.longest_chain).timestamp

\* blocks mined on the tip of self, as the tests mine them
MinedBlocks(self, miners, txlists, steps) ==
    {mine_block(TipId(self), Len(self.longest_chain), miner, txs, TipTime(self) + dt,
                calculate_difficulty(self)) :
        miner \in miners, txs \in txlists, dt \in steps}

\* the first nonce, from candidate_nonce upwards, whose digest misses target
RECURSIVE WeakNonce(_, _, _)
WeakNonce(block_description, target, candidate_nonce) ==
    IF DigestFinalize(DigestUpdate(block_description, candidate_nonce)) > target
    THEN candidate_nonce
    ELSE WeakNonce(block_description, target, candidate_nonce + 1)

\* a block on the tip whose id is the hash of its header but misses the target
WeakBlock(self, h, d) ==
    MinedWith(TipId(self), h, ALICE_ADDRESS, <<>>, TipTime(self), d,
              WeakNonce(sha256_digest(BlockDescription(TipId(self), ALICE_ADDRESS, <<>>,
                                                       TipTime(self), d)),
                        PowTarget(d), 0))

\* values of `previous` that name no parent: one off the tip's id, the value the
\* test uses (a non-zero id), and the genesis value on a chain that has a tip
WrongPrevious(self) == {TipId(self) + 1, ZERO_PREVIOUS + 1, ZERO_PREVIOUS} \ {TipId(self)}

\* blocks mined at height h on a wrong parent, as test_previous_validation mines them
WrongParentBlocks(self, h, d) ==
    {mine_block(previous, h, ALICE_ADDRESS, <<>>, TipTime(self), d) :
        previous \in WrongPrevious(self)}

\* block `good` changed in one field, or mined again with one input changed
BrokenFrom(self, h, d, good) ==
    {[good EXCEPT !.height = h + 1],
     mine_block(TipId(self), h, ALICE_ADDRESS, <<>>, TipTime(self), d + 1),
     [good EXCEPT !.block_id = (good.block_id + 1) % DigestSpace],
     mine_block(TipId(self), h, SHORT_ADDRESS, <<>>, TipTime(self), d),
     WeakBlock(self, h, d)}
    \cup WrongParentBlocks(self, h, d)
    \cup (IF TipTime(self) > 0
          THEN {mine_block(TipId(self), h, ALICE_ADDRESS, <<>>, TipTime(self) - 1, d)}
          ELSE {})

\* the blocks a node must reject, one for each check of the block's header
BrokenOn(self, h, d) ==
    BrokenFrom(self, h, d,
               mine_block(TipId(self), h, ALICE_ADDRESS, <<>>, TipTime(self), d))

BrokenBlocks(self) == BrokenOn(self, Len(self.longest_chain), calculate_difficulty(self))

CandidateBlocks(self) ==
    UNION {MinedBlocks(self, {miner}, TxListsOn(miner, Rewarded(self, miner), MaxTxs),
                       TimeSteps) : miner \in Addresses}
    \cup BrokenBlocks(self)

\* blocks a competing miner offers on top of self
BranchBlocks(self) ==
    MinedBlocks(self, {BOB_ADDRESS}, {<<>>, <<ForgedTx>>}, TimeSteps)

RECURSIVE BranchesOn(_, _)

\* the branches that start with block b, r the outcome of b on the state
BranchesFrom(b, r, n) ==
    IF r.err # "" THEN {<<b>>}
    ELSE {<<b>> \o rest : rest \in BranchesOn(r.state, n - 1)}

\* the branches of at most n blocks built on self: every block but the last is
\* one self accepts
BranchesOn(self, n) ==
    IF n = 0 THEN {<<>>}
    ELSE {<<>>} \cup UNION {BranchesFrom(b, verify_and_apply_block(self, b), n) :
                            b \in BranchBlocks(self)}

\* self cut back to its first h blocks
RECURSIVE CutBack(_, _)
CutBack(self, h) ==
    IF Len(self.longest_chain) <= h THEN self ELSE CutBack(undo_last_block(self).state, h)

Min(a, b) == IF a <= b THEN a ELSE b

CandidateBranches(self) ==
    UNION {BranchesOn(CutBack(self, h), Min(MaxBranch, MaxChain - h)) \ {<<>>} :
           h \in 0..Len(self.longest_chain)}

\* --------------------------------------------------------- the state machine
VARIABLES
    state,       \* the node's BlockchainState
    new_state,   \* what the last verify_reorg returned, NoState when it raised
    op,          \* the last call: "init", "apply", "undo", "reorg", "adopt"
    err,         \* "" when that call returned, else what it raised
    branch,      \* the new_branch of that call when it was a verify_reorg
    rejected,    \* how many rejected blocks have left state changed
    origin,      \* the last accepted block and state before it, while the call is
                 \* that verify_and_apply_block or the undo_last_block right after it
    search       \* a call of mine_block in progress: its arguments, the nonce its
                 \* puzzle_solver loop is at, and what happened around it

vars == <<state, new_state, op, err, branch, rejected, origin, search>>

NoState == [none |-> TRUE]

\* no call of mine_block is in progress
Idle == [pc |-> "idle"]

Init ==
    /\ state = EmptyState
    /\ new_state = NoState
    /\ op = "init"
    /\ err = ""
    /\ branch = <<>>
    /\ rejected = 0
    /\ origin = NoState
    /\ search = Idle

\* state.verify_and_apply_block(block)
ApplyBlock ==
    /\ search' = search
    /\ Len(state.longest_chain) < MaxChain
    /\ rejected < MaxRejected
    /\ \E block \in CandidateBlocks(state) :
          \E r \in {verify_and_apply_block(state, block)} :
             /\ state' = r.state
             /\ err' = r.err
             /\ rejected' = IF r.state # state /\ r.err # "" THEN rejected + 1
                             ELSE rejected
             /\ origin' = IF r.err = "" THEN [state |-> state, block |-> block]
                           ELSE NoState
    /\ op' = "apply"
    /\ new_state' = NoState
    /\ branch' = <<>>

\* state.undo_last_block()
UndoLastBlock ==
    /\ search' = search
    /\ \E r \in {undo_last_block(state)} :
          /\ state' = r.state
          /\ err' = r.err
    /\ origin' = IF op = "apply" /\ err = "" THEN origin ELSE NoState
    /\ op' = "undo"
    /\ rejected' = rejected
    /\ new_state' = NoState
    /\ branch' = <<>>

\* new_state = verify_reorg(state, new_branch)
VerifyReorg ==
    /\ search' = search
    /\ \E new_branch \in CandidateBranches(state) :
          \E r \in {verify_reorg(state, new_branch)} :
             /\ state' = r.old_state
             /\ err' = r.err
             /\ new_state' = IF r.err = "" THEN r.new_state ELSE NoState
             /\ branch' = new_branch
    /\ op' = "reorg"
    /\ rejected' = rejected
    /\ origin' = NoState

\* state = new_state: the caller takes the reorganised chain as its own
Adopt ==
    /\ search' = search
    /\ new_state # NoState
    /\ state' = new_state
    /\ new_state' = NoState
    /\ op' = "adopt"
    /\ rejected' = rejected
    /\ err' = ""
    /\ branch' = <<>>
    /\ origin' = NoState

Next == ApplyBlock \/ UndoLastBlock \/ VerifyReorg \/ Adopt

Spec == Init /\ [][Next]_vars

\* --------------------------------------- one miner, a chain past the retarget
\* (test_difficulty_calculation and test_difficulty_with_zero_time: Alice mines
\*  empty blocks one on another, at the tip's timestamp or one interval later)
LongSteps == {0, TARGET_INTERVAL}

\* a block mined on the tip with the timestamp and difficulty given
TipBlock(self, timestamp, difficulty) ==
    mine_block(TipId(self), Len(self.longest_chain), ALICE_ADDRESS, <<>>, timestamp,
               difficulty)

\* a block on the tip, valid but for a timestamp before the tip's
EarlyBlock(self) == TipBlock(self, TipTime(self) - 1, calculate_difficulty(self))

\* a block on the tip, valid, at the very timestamp of the tip
SameTimeBlock(self) == TipBlock(self, TipTime(self), calculate_difficulty(self))

\* blocks on the tip, valid but for the difficulty they carry
OffDifficultyBlocks(self) ==
    {TipBlock(self, TipTime(self) + TARGET_INTERVAL, d) :
        d \in {calculate_difficulty(self) + 1, BOOTSTRAP_DIFFICULTY}
               \ {calculate_difficulty(self)}}

Mineable(self) == calculate_difficulty(self) \in 1..MaxMineDifficulty

LongCandidates(self) ==
    IF ~Mineable(self) THEN {}
    ELSE MinedBlocks(self, {ALICE_ADDRESS}, {<<>>}, LongSteps)
         \cup OffDifficultyBlocks(self)
         \cup (IF TipTime(self) > 0 THEN {EarlyBlock(self)} ELSE {})

\* state.verify_and_apply_block(block), block one of Alice's
LongApply ==
    /\ search' = search
    /\ Len(state.longest_chain) < MaxLong
    /\ \E block \in LongCandidates(state) :
          \E r \in {verify_and_apply_block(state, block)} :
             /\ state' = r.state
             /\ err' = r.err
             /\ origin' = IF r.err = "" THEN [state |-> state, block |-> block]
                           ELSE NoState
    /\ op' = "apply"
    /\ UNCHANGED <<new_state, branch, rejected>>

LongNext == LongApply \/ UndoLastBlock

SpecLong == Init /\ [][LongNext]_vars

\* ------------------------------------------------------------ a search, step by step
\* mine_block up to the call of puzzle_solver: the header is digested, the target
\* computed, and the loop of puzzle_solver is about to try nonce 0
Searching(previous, height, miner, timestamp, difficulty) ==
    [pc |-> "searching", previous |-> previous, height |-> height, miner |-> miner,
     timestamp |-> timestamp, difficulty |-> difficulty,
     block_description |-> sha256_digest(BlockDescription(previous, miner, <<>>,
                                                          timestamp, difficulty)),
     target |-> PowTarget(difficulty),
     candidate_nonce |-> 0,
     preempted |-> FALSE,      \* a block was accepted while this search ran
     attempts_after |-> 0]     \* nonces tried since then

\* block = mine_block(tip id, len(chain), miner, [], timestamp, difficulty) is called
StartSearch ==
    /\ search = Idle
    /\ Len(state.longest_chain) < MaxChain
    /\ \E miner \in Addresses, dt \in LongSteps :
          search' = Searching(TipId(state), Len(state.longest_chain), miner,
                              TipTime(state) + dt, calculate_difficulty(state))
    /\ UNCHANGED <<state, new_state, op, err, branch, rejected, origin>>

\* one turn of the loop of puzzle_solver: the candidate is hashed and compared with
\* the target, and nothing else is read; the loop ends only on a nonce that passes
TryNonce ==
    /\ search.pc = "searching"
    /\ search' =
          IF DigestFinalize(DigestUpdate(search.block_description,
                                         search.candidate_nonce)) <= search.target
          THEN [search EXCEPT !.pc = "found",
                              !.attempts_after = IF search.preempted THEN @ + 1 ELSE @]
          ELSE [search EXCEPT !.candidate_nonce = @ + 1,
                              !.attempts_after = IF search.preempted THEN @ + 1 ELSE @]
    /\ UNCHANGED <<state, new_state, op, err, branch, rejected, origin>>

\* blocks that reach the node from another miner
NetworkBlocks(self) == MinedBlocks(self, {BOB_ADDRESS}, {<<>>}, TimeSteps)

\* a block from the network is accepted by verify_and_apply_block; a search that is
\* running is from now on a search on a stale tip, but no code tells it so
AcceptFromNetwork ==
    /\ Len(state.longest_chain) < MaxChain
    /\ \E block \in NetworkBlocks(state) :
          \E r \in {verify_and_apply_block(state, block)} :
             /\ state' = r.state
             /\ err' = r.err
    /\ op' = "apply"
    /\ search' = IF search.pc = "searching" THEN [search EXCEPT !.preempted = TRUE]
                 ELSE search
    /\ UNCHANGED <<new_state, branch, rejected, origin>>

\* the end of mine_block, and the caller's verify_and_apply_block of the block
ReturnBlock ==
    /\ search.pc = "found"
    /\ \E r \in {verify_and_apply_block(
                    state,
                    MinedWith(search.previous, search.height, search.miner, <<>>,
                              search.timestamp, search.difficulty,
                              search.candidate_nonce))} :
          /\ state' = r.state
          /\ err' = r.err
    /\ op' = "apply"
    /\ search' = Idle
    /\ UNCHANGED <<new_state, branch, rejected, origin>>

\* ------------------------------------------------------------ a wider transaction pool
\* the transactions of test_undo, and transfers of an account to itself
WidePool ==
    {create_signed_transaction(ALICE_KEY, BOB_ADDRESS, 3000, 25, 0),
     create_signed_transaction(BOB_KEY, ALICE_ADDRESS, 1000, 50, 0),
     create_signed_transaction(ALICE_KEY, BOB_ADDRESS, 100, 50, 1),
     create_signed_transaction(ALICE_KEY, ALICE_ADDRESS, 3000, 25, 0)}

RECURSIVE WideListsOn(_, _, _)

\* the lists that start with t, r the outcome of t on the account map
WideListsFrom(miner, t, r, n) ==
    IF r.err # "" THEN {<<t>>}
    ELSE {<<t>> \o rest : rest \in WideListsOn(miner, r.states, n - 1)}

\* the lists of at most n transactions of WidePool offered to a block of `miner` on
\* account map u: every transaction but the last is one the block accepts
WideListsOn(miner, u, n) ==
    IF n = 0 THEN {<<>>}
    ELSE {<<>>} \cup UNION {WideListsFrom(miner, t, ApplyTransaction(miner, t, u), n) :
                            t \in WidePool}

WideBlocks(self) ==
    UNION {MinedBlocks(self, {miner}, WideListsOn(miner, Rewarded(self, miner), MaxTxs),
                       TimeSteps) : miner \in Addresses}

\* state.verify_and_apply_block(block), block carrying transactions of WidePool
ApplyWide ==
    /\ search' = search
    /\ Len(state.longest_chain) < MaxChain
    /\ rejected < MaxRejected
    /\ \E block \in WideBlocks(state) :
          \E r \in {verify_and_apply_block(state, block)} :
             /\ state' = r.state
             /\ err' = r.err
             /\ rejected' = IF r.state # state /\ r.err # "" THEN rejected + 1
                             ELSE rejected
             /\ origin' = IF r.err = "" THEN [state |-> state, block |-> block]
                           ELSE NoState
    /\ op' = "apply"
    /\ new_state' = NoState
    /\ branch' = <<>>

WideNext == ApplyWide \/ UndoLastBlock

\* state.verify_and_apply_block(block) as ApplyWide, and also on a state that a
\* rejected block has left changed; MaxRejected bounds the rejected blocks that do
ApplyOnChanged ==
    /\ search' = search
    /\ Len(state.longest_chain) < MaxChain
    /\ \E block \in WideBlocks(state) :
          \E r \in {verify_and_apply_block(state, block)} :
             /\ state' = r.state
             /\ err' = r.err
             /\ rejected' = IF r.state # state /\ r.err # "" THEN rejected + 1
                             ELSE rejected
             /\ rejected' <= MaxRejected
             /\ origin' = IF r.err = "" THEN [state |-> state, block |-> block]
                           ELSE NoState
    /\ op' = "apply"
    /\ new_state' = NoState
    /\ branch' = <<>>

ReplayNext == ApplyOnChanged \/ UndoLastBlock

SpecReplay == Init /\ [][ReplayNext]_vars

SpecWide == Init /\ [][WideNext]_vars

\* ------------------------------------------------------------ blocks with several faults
\* the rules a block offered to a node may break by the way it is put together
FaultNames == {"height", "previous", "timestamp", "difficulty", "count", "miner", "transaction"}

\* how the nonce and the block_id are made: mined as mine_block does, mined and
\* the id then changed, or the id of a nonce that misses the target
SealModes == {"mined", "stale", "weak"}

\* one more transaction than a block may carry, or one that fails its checks
FaultyTransactions(faults) ==
    IF "count" \in faults
    THEN [i \in 1..(MAX_TRANSACTIONS + 1) |->
            create_signed_transaction(ALICE_KEY, BOB_ADDRESS, 3000, 25, 0)]
    ELSE IF "transaction" \in faults THEN <<ForgedTx>>
    ELSE <<>>

StaleId(block) == [block EXCEPT !.block_id = (@ + 1) % DigestSpace]

Seal(previous, height, miner, transactions, timestamp, difficulty, mode) ==
    IF mode = "weak"
    THEN MinedWith(previous, height, miner, transactions, timestamp, difficulty,
                   WeakNonce(sha256_digest(BlockDescription(previous, miner, transactions,
                                                            timestamp, difficulty)),
                             PowTarget(difficulty), 0))
    ELSE IF mode = "stale"
    THEN StaleId(mine_block(previous, height, miner, transactions, timestamp, difficulty))
    ELSE mine_block(previous, height, miner, transactions, timestamp, difficulty)

\* a block for the tip of self put together with the given faults
FaultyBlock(self, faults, mode) ==
    Seal(IF "previous" \notin faults THEN TipId(self)
         ELSE IF self.longest_chain = <<>> THEN ZERO_PREVIOUS + 1 ELSE ZERO_PREVIOUS,
         Len(self.longest_chain) + (IF "height" \in faults THEN 1 ELSE 0),
         IF "miner" \in faults THEN SHORT_ADDRESS ELSE ALICE_ADDRESS,
         FaultyTransactions(faults),
         IF "timestamp" \in faults /\ self.longest_chain # <<>>
         THEN TipTime(self) - 1 ELSE TipTime(self) + TARGET_INTERVAL,
         calculate_difficulty(self) + (IF "difficulty" \in faults THEN 1 ELSE 0),
         mode)

\* state.verify_and_apply_block(block) for a block with any set of faults; origin
\* keeps the block and the state it was offered to, accepted or not
OfferFaulty ==
    /\ search' = search
    /\ Len(state.longest_chain) < MaxChain
    /\ rejected < MaxRejected
    /\ \E faults \in SUBSET FaultNames, mode \in SealModes :
          \E block \in {FaultyBlock(state, faults, mode)} :
             \E r \in {verify_and_apply_block(state, block)} :
                /\ state' = r.state
                /\ err' = r.err
                /\ rejected' = IF r.state # state /\ r.err # "" THEN rejected + 1
                                ELSE rejected
                /\ origin' = [state |-> state, block |-> block]
    /\ op' = "offer"
    /\ new_state' = NoState
    /\ branch' = <<>>

SpecOrder == Init /\ [][OfferFaulty]_vars

\* ------------------------------------------------------------ forks past the retarget
ForkMineable(self) == calculate_difficulty(self) \in 1..MaxForkDifficulty

\* the time a block takes after its parent: the blocks in the middle of the first
\* retarget window come in one burst, the others at once or after three intervals
ForkSteps(self) ==
    IF Len(self.longest_chain) \in 2..(RETARGET_WINDOW - 1) THEN {0}
    ELSE {0, 3 * TARGET_INTERVAL}

\* blocks without transactions mined on the tip of self by `miner`
ForkBlocks(self, miner) ==
    IF ForkMineable(self) THEN MinedBlocks(self, {miner}, {<<>>}, ForkSteps(self)) ELSE {}

\* state.verify_and_apply_block(block), block mined by Alice on the tip
ForkApply ==
    /\ search' = search
    /\ Len(state.longest_chain) < MaxFork
    /\ \E block \in ForkBlocks(state, ALICE_ADDRESS) :
          \E r \in {verify_and_apply_block(state, block)} :
             /\ state' = r.state
             /\ err' = r.err
    /\ op' = "apply"
    /\ origin' = NoState
    /\ UNCHANGED <<new_state, branch, rejected>>

RECURSIVE ForkBranchesOn(_, _)

\* the branches that start with block b, r the outcome of b on the state
ForkBranchesFrom(b, r, n) ==
    IF r.err # "" THEN {<<b>>}
    ELSE {<<b>> \o rest : rest \in ForkBranchesOn(r.state, n - 1)}

\* the branches of 1..n blocks Bob mines on self
ForkBranchesOn(self, n) ==
    IF n = 0 THEN {<<>>}
    ELSE {<<>>} \cup UNION {ForkBranchesFrom(b, verify_and_apply_block(self, b), n) :
                            b \in ForkBlocks(self, BOB_ADDRESS)}

\* branches that fork off at most MaxBranch + 1 blocks below the tip
ForkBranches(self) ==
    UNION {ForkBranchesOn(CutBack(self, h), MaxBranch) \ {<<>>} :
           h \in {k \in 0..(Len(self.longest_chain) - 1) :
                    k >= Len(self.longest_chain) - (MaxBranch + 1)}}

\* new_state = verify_reorg(state, new_branch) on a chain grown to its full length
ForkReorg ==
    /\ search' = search
    /\ Len(state.longest_chain) = MaxFork
    /\ \E new_branch \in ForkBranches(state) :
          \E r \in {verify_reorg(state, new_branch)} :
             /\ state' = r.old_state
             /\ err' = r.err
             /\ new_state' = IF r.err = "" THEN r.new_state ELSE NoState
             /\ branch' = new_branch
    /\ op' = "reorg"
    /\ rejected' = rejected
    /\ origin' = NoState

ForkNext == ForkApply \/ ForkReorg

SpecFork == Init /\ [][ForkNext]_vars

\* ------------------------------------------------------------ a slow chain
\* the time a block takes after its parent: the target interval, or ten times it
SlowSteps == {TARGET_INTERVAL, 10 * TARGET_INTERVAL}

\* state.verify_and_apply_block(block), block mined on the tip at the difficulty
\* calculate_difficulty() gives, when mine_block can compute a target for it
SlowApply ==
    /\ search' = search
    /\ Len(state.longest_chain) < MaxLong
    /\ Mineable(state)
    /\ \E block \in MinedBlocks(state, {ALICE_ADDRESS}, {<<>>}, SlowSteps) :
          \E r \in {verify_and_apply_block(state, block)} :
             /\ state' = r.state
             /\ err' = r.err
             /\ origin' = IF r.err = "" THEN [state |-> state, block |-> block]
                           ELSE NoState
    /\ op' = "apply"
    /\ UNCHANGED <<new_state, branch, rejected>>

SpecSlow == Init /\ [][SlowApply]_vars

MineNext == StartSearch \/ TryNonce \/ AcceptFromNetwork \/ ReturnBlock

SpecMine == Init /\ [][MineNext]_vars

\* ------------------------------------------------ what the claims speak of
\* the state of an account, an absent one counting as balance 0, nonce -1
Lookup(states, a) ==
    IF a \in DOMAIN states THEN states[a] ELSE UserState(0, DEFAULT_NONCE)

SameAccounts(u, v) ==
    \A a \in DOMAIN u \cup DOMAIN v : Lookup(u, a) = Lookup(v, a)

SameChainState(s, t) ==
    /\ s.longest_chain = t.longest_chain
    /\ s.total_difficulty = t.total_difficulty
    /\ SameAccounts(s.user_states, t.user_states)

SumDifficulty(chain) == SumSeq([i \in 1..Len(chain) |-> chain[i].difficulty])

RECURSIVE SumBalances(_)
SumBalances(states) ==
    IF DOMAIN states = {} THEN 0
    ELSE LET k == CHOOSE a \in DOMAIN states : TRUE
         IN states[k].balance + SumBalances([a \in DOMAIN states \ {k} |-> states[a]])

Debited(txs, a) ==
    SumSeq([i \in 1..Len(txs) |-> IF txs[i].sender_hash = a THEN txs[i].amount ELSE 0])

Credited(txs, a) ==
    SumSeq([i \in 1..Len(txs) |->
                IF txs[i].recipient_hash = a THEN txs[i].amount - txs[i].fee ELSE 0])

SentBy(txs, a) ==
    SumSeq([i \in 1..Len(txs) |-> IF txs[i].sender_hash = a THEN 1 ELSE 0])

FeesOf(txs) == SumSeq([i \in 1..Len(txs) |-> txs[i].fee])

Parties(block) ==
    {block.miner}
    \cup {block.transactions[i].sender_hash : i \in 1..Len(block.transactions)}
    \cup {block.transactions[i].recipient_hash : i \in 1..Len(block.transactions)}

\* the account map a block turns account map P into, as section 4.3 states it
Transition(P, block) ==
    [a \in DOMAIN P \cup Parties(block) |->
        LET old == Lookup(P, a)
            txs == block.transactions
        IN UserState(
            old.balance
              + (IF a = block.miner THEN MINING_REWARD + FeesOf(txs) ELSE 0)
              - Debited(txs, a) + Credited(txs, a),
            old.nonce + SentBy(txs, a))]

\* the transitions of the blocks of a chain, in order, from the empty account map
RECURSIVE Replay(_)
Replay(chain) ==
    IF chain = <<>> THEN <<>> ELSE Transition(Replay(ButLast(chain)), Last(chain))

TOTAL_DIFFICULTY_ERROR == "New chain has lower total difficulty than old chain"

\* the blocks of a chain below height h
Below(chain, h) == SubSeq(chain, 1, Min(h, Len(chain)))

\* new_branch replayed block by block on old_state cut back to where it forks
RECURSIVE ApplyAll(_, _)

ApplyNext(r, rest) == IF r.err # "" THEN r ELSE ApplyAll(r.state, rest)

ApplyAll(self, blocks) ==
    IF blocks = <<>> THEN [err |-> "", state |-> self]
    ELSE ApplyNext(verify_and_apply_block(self, Head(blocks)), Tail(blocks))

\* ---------------------------------------------------------------- claims

\* C1: a verify_and_apply_block call that fails leaves the chain state exactly as
\* it was: same longest_chain, same total_difficulty, same balance and nonce of
\* every account.
C1_RejectedBlockChangesNothing ==
    [][(op' = "apply" /\ err' # "") => state' = state]_vars

\* C2: in every reachable state user_states is the replay of the blocks of
\* longest_chain, in order, from the empty account map.
C2_UserStatesAreTheReplay ==
    SameAccounts(state.user_states, Replay(state.longest_chain))

\* C3: a block accepted on state S and then undone leaves a state equal to S:
\* the same chain, the same total difficulty, the same balance and nonce for every
\* address.
C3_ApplyThenUndoRestores ==
    (op = "undo" /\ err = "" /\ origin # NoState) => SameChainState(state, origin.state)

C3_Witness ==
    /\ op = "undo" /\ err = "" /\ origin # NoState
    /\ Len(origin.block.transactions) = 2
    /\ origin.state.longest_chain # <<>>
    /\ \E a \in DOMAIN state.user_states : a \notin DOMAIN origin.state.user_states

\* C4: verify_reorg leaves old_state as it was, whether it returns or raises:
\* chain, total difficulty, every balance and nonce, and the set of accounts.
C4_ReorgLeavesOldState ==
    [][op' = "reorg" => state' = state]_vars

C4_Witness ==
    /\ op = "reorg" /\ err = ""
    /\ branch[1].height < Len(state.longest_chain)
    /\ BOB_ADDRESS \in DOMAIN state.user_states
    /\ new_state.user_states # state.user_states

\* C5: verify_reorg returns only when the resulting chain has strictly more
\* cumulative difficulty than old_state, and a branch whose blocks are all accepted
\* but which yields no more difficulty is rejected with the total-difficulty error.
C5_StrictlyMoreDifficulty ==
    op = "reorg" =>
        \E replay \in {ApplyAll(CutBack(state, branch[1].height), branch)} :
           /\ err = "" =>
                SumDifficulty(new_state.longest_chain) > state.total_difficulty
           /\ (replay.err = ""
               /\ SumDifficulty(replay.state.longest_chain) <= state.total_difficulty)
                => err = TOTAL_DIFFICULTY_ERROR

C5_Witness ==
    /\ op = "reorg" /\ err = TOTAL_DIFFICULTY_ERROR
    /\ Len(branch) = 2
    /\ SumDifficulty(Below(state.longest_chain, branch[1].height)) + SumDifficulty(branch)
         = state.total_difficulty

\* C6: the state a successful verify_reorg returns holds the blocks of old_state
\* below the fork followed by new_branch, the sum of their difficulties, and the
\* replay of that chain from the empty account map.
C6_ReorgResult ==
    (op = "reorg" /\ err = "") =>
        LET chain == Below(state.longest_chain, branch[1].height) \o branch
        IN /\ new_state.longest_chain = chain
           /\ new_state.total_difficulty = SumDifficulty(chain)
           /\ SameAccounts(new_state.user_states, Replay(chain))

\* C7: an accepted block changes the account map by exactly: the miner credited
\* 10000 plus the block's fees, each sender debited its amounts and its nonce raised
\* by one per transaction, each recipient credited amount - fee, nothing else.
C7_AcceptedBlockDelta ==
    [][(op' = "apply" /\ err' = "") =>
          SameAccounts(state'.user_states,
                       Transition(state.user_states, Last(state'.longest_chain)))]_vars

C7_Witness ==
    /\ op = "apply" /\ err = ""
    /\ Len(Last(state.longest_chain).transactions) = 2
    /\ Len(state.longest_chain) = 2

\* C8: in every reachable state the balances of user_states sum to 10000 times
\* the length of longest_chain.
C8_SupplyIsRewardTimesLength ==
    SumBalances(state.user_states) = MINING_REWARD * Len(state.longest_chain)

\* C9: in every reachable state, and in every state verify_reorg returns,
\* total_difficulty is the sum of the difficulty fields of the blocks of
\* longest_chain.
C9_TotalDifficultyIsTheSum ==
    /\ state.total_difficulty = SumDifficulty(state.longest_chain)
    /\ new_state # NoState =>
          new_state.total_difficulty = SumDifficulty(new_state.longest_chain)

C9_Witness ==
    /\ op = "undo" /\ err = ""
    /\ state.total_difficulty = BOOTSTRAP_DIFFICULTY
    /\ rejected = 1

WellLinked(chain) ==
    \A i \in 1..Len(chain) :
        /\ chain[i].height = i - 1
        /\ chain[i].previous = IF i = 1 THEN ZERO_PREVIOUS ELSE chain[i - 1].block_id

\* C10: in every reachable state the chain is well linked: the block at index i has
\* height i, the first block's previous is 32 zero bytes, every later block's
\* previous is the block_id of the block before it.
C10_ChainIsWellLinked ==
    /\ WellLinked(state.longest_chain)
    /\ new_state # NoState => WellLinked(new_state.longest_chain)

C10_Witness ==
    /\ op = "adopt"
    /\ Len(state.longest_chain) = 2
    /\ state.longest_chain[2].previous = state.longest_chain[1].block_id
    /\ state.longest_chain[2].previous # ZERO_PREVIOUS

\* the timestamps along a chain never fall
TimestampsNeverFall(chain) ==
    \A i \in 2..Len(chain) : chain[i].timestamp >= chain[i - 1].timestamp

TIMESTAMP_ERROR == "Timestamp should not be less than that of parent block"

\* C11: the timestamps along longest_chain are non-decreasing in every reachable
\* state; on a non-empty chain an otherwise valid block with a timestamp below the
\* tip's is rejected, and one with the tip's own timestamp is accepted.
C11_TimestampsNonDecreasing ==
    /\ TimestampsNeverFall(state.longest_chain)
    /\ (state.longest_chain # <<>> /\ Mineable(state)) =>
          /\ verify_and_apply_block(state, SameTimeBlock(state)).err = ""
          /\ TipTime(state) > 0 =>
                verify_and_apply_block(state, EarlyBlock(state)).err = TIMESTAMP_ERROR

C11_Witness ==
    /\ op = "apply" /\ err = ""
    /\ Len(state.longest_chain) >= 3
    /\ Last(state.longest_chain).timestamp = Last(ButLast(state.longest_chain)).timestamp
    /\ Last(state.longest_chain).timestamp > 0

\* sum_d: the difficulties of the last 10 blocks of a chain of more than 10
WindowDifficulty(chain) ==
    SumDifficulty(SubSeq(chain, Len(chain) - 9, Len(chain)))

\* dt: the time from the 11th block from the end to the last, 1 standing for 0
WindowTime(chain) ==
    IF chain[Len(chain)].timestamp = chain[Len(chain) - 10].timestamp THEN 1
    ELSE chain[Len(chain)].timestamp - chain[Len(chain) - 10].timestamp

\* the retarget rule of section 4.6
RetargetRule(chain) ==
    IF Len(chain) <= 10 THEN 1000
    ELSE (WindowDifficulty(chain) \div WindowTime(chain)) * 120

\* C12: calculate_difficulty() is 1000 on a chain of at most 10 blocks, else
\* (sum_d // dt) * 120 over the last 10 blocks, dt read as 1 when it is 0, the
\* division done before the multiplication; 11 blocks of difficulty 1000 at one
\* timestamp give 1200000.
C12_RetargetRule ==
    /\ calculate_difficulty(state) = RetargetRule(state.longest_chain)
    /\ (Len(state.longest_chain) = 11
        /\ \A i \in 1..11 : /\ state.longest_chain[i].difficulty = 1000
                             /\ state.longest_chain[i].timestamp
                                  = state.longest_chain[1].timestamp)
         => calculate_difficulty(state) = 1200000

C12_Witness ==
    /\ Len(state.longest_chain) = 12
    /\ state.longest_chain[12].difficulty = 3240
    /\ state.longest_chain[12].timestamp - state.longest_chain[2].timestamp = 480
    /\ calculate_difficulty(state) = (12240 \div 480) * 120

C12_ZeroTimeWitness ==
    /\ Len(state.longest_chain) = 11
    /\ Last(state.longest_chain).timestamp = state.longest_chain[1].timestamp
    /\ calculate_difficulty(state) = 1200000

\* the chain state whose chain is the first n blocks of a chain
PrefixState(chain, n) == BlockchainState(SubSeq(chain, 1, n), <<>>, 0)

\* C13: every block of longest_chain carries the difficulty calculate_difficulty()
\* gives for the blocks before it, and an otherwise valid block with another
\* difficulty is rejected with the 'Incorrect difficulty' error, the state unchanged.
C13_DifficultyIsTheRetarget ==
    /\ \A i \in 1..Len(state.longest_chain) :
          state.longest_chain[i].difficulty
            = calculate_difficulty(PrefixState(state.longest_chain, i - 1))
    /\ Mineable(state) =>
          \A block \in OffDifficultyBlocks(state) :
              \E r \in {verify_and_apply_block(state, block)} :
                  r.err = "Incorrect difficulty" /\ r.state = state

C13_Witness ==
    /\ op = "apply" /\ err = "Incorrect difficulty"
    /\ Len(state.longest_chain) = 11
    /\ calculate_difficulty(state) = 3240
    /\ OffDifficultyBlocks(state) # {}

PREVIOUS_ERROR == "Previous block ID should match ID of last block in chain"

\* C14: a block at the height of the chain's length (the height check comes first)
\* whose previous is not the tip's block_id, or not the genesis value on the empty
\* chain, is rejected by verify_and_apply_block with the 'Previous block ID' error
\* and the chain state is left as it was; so is a block that names the genesis
\* value at height >= 1.
C14_WrongPreviousRejected ==
    \A block \in WrongParentBlocks(state, Len(state.longest_chain),
                                   calculate_difficulty(state)) :
        \E r \in {verify_and_apply_block(state, block)} :
            /\ r.err = PREVIOUS_ERROR
            /\ r.state = state
            /\ r.previous = state.user_states

C14_Witness ==
    /\ op = "apply" /\ err = PREVIOUS_ERROR
    /\ Len(state.longest_chain) >= 1
    /\ ZERO_PREVIOUS \in WrongPrevious(state)

\* the target as the specification states it: floor division over the integers
FloorTarget(difficulty) == HashSpace \div difficulty

\* C15: every block of longest_chain meets the proof-of-work rule with floor
\* division: its block_id, read as a number, is at most floor(2^256 / difficulty).
C15_ProofOfWorkByFloor ==
    \A i \in 1..Len(state.longest_chain) :
        state.longest_chain[i].block_id <= FloorTarget(state.longest_chain[i].difficulty)

\* C16: in every chain state reached through verify_and_apply_block (accepted or
\* rejected), undo_last_block and verify_reorg, every balance of user_states is >= 0.
C16_BalancesNeverNegative ==
    \A k \in DOMAIN state.user_states : state.user_states[k].balance >= 0

\* the number of transactions of a chain sent by account a
SentInChain(chain, a) ==
    SumSeq([i \in 1..Len(chain) |-> SentBy(chain[i].transactions, a)])

\* C17: each account's nonce is the number of transactions of longest_chain it
\* sent, minus one (-1 for an account that never sent).
C17_NonceCountsSentTransactions ==
    \A k \in DOMAIN state.user_states :
        state.user_states[k].nonce = SentInChain(state.longest_chain, k) - 1

\* C18: on every chain state reached through verify_and_apply_block,
\* undo_last_block and verify_reorg, the state left after undoing the only block
\* included, a call of undo_last_block completes without raising an error.
C18_UndoNeverFails == op = "undo" => err = ""

\* the transaction lists a block of `miner` on self carries through update_states
ValidTxLists(self, miner) ==
    {txs \in TxListsOn(miner, Rewarded(self, miner), MaxTxs) :
        update_states(Block(0, 0, miner, txs, 0, 0, 0, 0), self.user_states).err = ""}

\* blocks mined on the tip of self by a 20-byte miner, at the tip's timestamp or
\* later, with the difficulty calculate_difficulty() asks and valid transactions
WellMinedBlocks(self) ==
    UNION {MinedBlocks(self, {miner}, ValidTxLists(self, miner), {0} \cup TimeSteps) :
           miner \in Addresses}

\* the number the header of block hashes to with nonce n
IdWithNonce(block, n) ==
    BlockIdOf(block.previous, block.miner, block.transactions, block.timestamp,
              block.difficulty, n)

\* C19: the block mine_block returns carries the smallest nonce, counted from 0,
\* whose digest meets the target, and its block_id is the hash of its header with
\* that nonce; mined on the tip (previous = tip id, height = chain length,
\* timestamp >= the tip's, difficulty = calculate_difficulty(), a 20-byte miner
\* and valid transactions) it is accepted by verify_and_apply_block.
C19_MinedBlockIsFirstAndAccepted ==
    \A block \in WellMinedBlocks(state) :
        /\ block.nonce >= 0
        /\ \A n \in 0..(block.nonce - 1) : IdWithNonce(block, n) > PowTarget(block.difficulty)
        /\ IdWithNonce(block, block.nonce) <= PowTarget(block.difficulty)
        /\ block.block_id = IdWithNonce(block, block.nonce)
        /\ verify_and_apply_block(state, block).err = ""

C19_Witness ==
    /\ op = "apply" /\ err = ""
    /\ origin # NoState
    /\ origin.block \in WellMinedBlocks(origin.state)
    /\ origin.block.nonce >= 1
    /\ origin.block.transactions # <<>>
    /\ Last(state.longest_chain) = origin.block

\* C20: a search in progress is cancellable: once cancellation is requested, here
\* by the acceptance of a block from the network, the search stops after at most
\* one further nonce attempt.
C20_SearchStopsWhenCancelled ==
    \/ search.pc = "idle"
    \/ ~search.preempted
    \/ search.attempts_after <= 1

\* the account map update_states holds after the first i transactions of block,
\* started on account map u
Running(block, u, i) ==
    update_states([block EXCEPT !.transactions = SubSeq(@, 1, i)], u).updated

\* what one transfer of an account to itself did to the running map: the fee went
\* from the sender to the miner, the sender's nonce rose by one, nothing else
SelfTransferEffect(miner, t, before, after) ==
    /\ Lookup(after, t.sender_hash).nonce = Lookup(before, t.sender_hash).nonce + 1
    /\ Lookup(after, t.sender_hash).balance
         = IF miner = t.sender_hash THEN Lookup(before, t.sender_hash).balance
           ELSE Lookup(before, t.sender_hash).balance - t.fee
    /\ miner # t.sender_hash =>
          Lookup(after, miner) = UserState(Lookup(before, miner).balance + t.fee,
                                           Lookup(before, miner).nonce)
    /\ \A a \in (DOMAIN before \cup DOMAIN after) \ {miner, t.sender_hash} :
          Lookup(after, a) = Lookup(before, a)

IsSelfTransfer(t) == t.sender_hash = t.recipient_hash

\* C21: a transfer of an account to itself is accepted when otherwise valid; it
\* takes the fee off the sender, raises the sender's nonce by one and credits the fee
\* to the block's miner; a sender that is the miner keeps its balance.
C21_SelfTransferCostsTheFee ==
    [][(op' = "apply" /\ err' = "") =>
          /\ state'.user_states
               = Running(Last(state'.longest_chain), state.user_states,
                         Len(Last(state'.longest_chain).transactions))
          /\ \A i \in 1..Len(Last(state'.longest_chain).transactions) :
              IsSelfTransfer(Last(state'.longest_chain).transactions[i]) =>
                  SelfTransferEffect(
                      Last(state'.longest_chain).miner,
                      Last(state'.longest_chain).transactions[i],
                      Running(Last(state'.longest_chain), state.user_states, i - 1),
                      Running(Last(state'.longest_chain), state.user_states, i))]_vars

C21_Witness ==
    /\ op = "apply" /\ err = ""
    /\ \E i \in 1..Len(Last(state.longest_chain).transactions) :
          /\ IsSelfTransfer(Last(state.longest_chain).transactions[i])
          /\ Last(state.longest_chain).transactions[i].sender_hash
               # Last(state.longest_chain).miner
          /\ i = Len(Last(state.longest_chain).transactions)
          /\ origin.state.user_states # <<>>
          /\ Lookup(state.user_states,
                    Last(state.longest_chain).transactions[i].sender_hash).balance
               = Lookup(Running(Last(state.longest_chain), origin.state.user_states,
                                i - 1),
                        Last(state.longest_chain).transactions[i].sender_hash).balance
                 - Last(state.longest_chain).transactions[i].fee

\* the sender of the i-th transaction of block as section 4.3 has it at that point:
\* account map P after the reward and the i - 1 transactions before
SeenBy(P, block, i) ==
    Lookup(Transition(P, [block EXCEPT !.transactions = SubSeq(@, 1, i - 1)]),
           block.transactions[i].sender_hash)

VerifiedInOrder(P, block) ==
    \A i \in 1..Len(block.transactions) :
        TxVerify(block.transactions[i], SeenBy(P, block, i).balance,
                 SeenBy(P, block, i).nonce) = ""

\* the sender of the i-th transaction of block in the account map before the block
SeenBefore(P, block, i) == Lookup(P, block.transactions[i].sender_hash)

\* C22: within a block each transaction is verified against the running account
\* map: the map before the block, plus the block's reward, plus the fees, debits,
\* credits and nonce steps of the transactions before it in the list. A well mined
\* block is accepted exactly when each of its transactions passes on that view.
C22_VerifiedOnRunningMap ==
    \A block \in WideBlocks(state) :
        (verify_and_apply_block(state, block).err = "")
            <=> VerifiedInOrder(state.user_states, block)

C22_Witness ==
    /\ op = "apply" /\ err = "" /\ origin # NoState
    /\ Len(origin.block.transactions) = 2
    /\ origin.block.transactions[1].sender_hash = origin.block.miner
    /\ origin.block.transactions[2].sender_hash = origin.block.transactions[1].recipient_hash
    /\ origin.block.transactions[2].sender_hash # origin.block.miner
    /\ \A i \in 1..2 :
          TxVerify(origin.block.transactions[i],
                   SeenBefore(origin.state.user_states, origin.block, i).balance,
                   SeenBefore(origin.state.user_states, origin.block, i).nonce)
            = "Balance too small"

\* two transactions of one sender in one block, taken in nonce order
C22_NonceOrderWitness ==
    /\ op = "apply" /\ err = "" /\ origin # NoState
    /\ Len(origin.block.transactions) = 2
    /\ origin.block.transactions[1].sender_hash = origin.block.transactions[2].sender_hash
    /\ origin.block.transactions[2].nonce = origin.block.transactions[1].nonce + 1

\* the outcome of the first transaction of block that fails on its running view
FirstTxError(P, block) ==
    IF VerifiedInOrder(P, block) THEN ""
    ELSE LET fails(i) == TxVerify(block.transactions[i], SeenBy(P, block, i).balance,
                                  SeenBy(P, block, i).nonce) # ""
             first == CHOOSE i \in 1..Len(block.transactions) :
                         fails(i) /\ \A j \in 1..(i - 1) : ~fails(j)
         IN TxVerify(block.transactions[first], SeenBy(P, block, first).balance,
                     SeenBy(P, block, first).nonce)

\* the error of the earliest rule that block breaks on chain state self, the rules
\* taken in the order: height, previous, timestamp, difficulty, block id,
\* transaction count, miner length, proof of work, transactions in list order
EarliestFailure(self, block) ==
    IF block.height # Len(self.longest_chain)
    THEN "Height of block should equal length of valid chain"
    ELSE IF block.previous # TipId(self) THEN PREVIOUS_ERROR
    ELSE IF self.longest_chain # <<>> /\ block.timestamp < TipTime(self) THEN TIMESTAMP_ERROR
    ELSE IF block.difficulty # calculate_difficulty(self) THEN "Incorrect difficulty"
    ELSE IF block.block_id # IdWithNonce(block, block.nonce)
         THEN "Block ID does not correspond to the SHA256 hash"
    ELSE IF Len(block.transactions) > MAX_TRANSACTIONS
         THEN "Block can only contain at most 25 transactions"
    ELSE IF len(block.miner) # ADDRESS_LENGTH THEN "Miner hash should be 20 bytes long"
    ELSE IF block.block_id > PowTarget(block.difficulty) THEN "Invalid proof of work"
    ELSE FirstTxError(self.user_states, block)

\* the number of rules block breaks on chain state self
BrokenRules(self, block) ==
    (IF block.height # Len(self.longest_chain) THEN 1 ELSE 0)
    + (IF block.previous # TipId(self) THEN 1 ELSE 0)
    + (IF self.longest_chain # <<>> /\ block.timestamp < TipTime(self) THEN 1 ELSE 0)
    + (IF block.difficulty # calculate_difficulty(self) THEN 1 ELSE 0)
    + (IF block.block_id # IdWithNonce(block, block.nonce) THEN 1 ELSE 0)
    + (IF Len(block.transactions) > MAX_TRANSACTIONS THEN 1 ELSE 0)
    + (IF len(block.miner) # ADDRESS_LENGTH THEN 1 ELSE 0)
    + (IF block.block_id > PowTarget(block.difficulty) THEN 1 ELSE 0)

\* C23: verify_and_apply_block reports the first failing check in the order height,
\* previous, timestamp (non-empty chain only), difficulty, block id, transaction
\* count, miner length, proof of work, then the transactions in list order: a block
\* that breaks several rules is rejected with the error of the earliest one.
C23_EarliestCheckReported ==
    op = "offer" => err = EarliestFailure(origin.state, origin.block)

C23_Witness ==
    /\ op = "offer" /\ err = PREVIOUS_ERROR
    /\ Len(origin.state.longest_chain) = 1
    /\ origin.block.height = 1
    /\ origin.block.previous = ZERO_PREVIOUS
    /\ BrokenRules(origin.state, origin.block) >= 6

\* C24: verify_and_get_changes works on a copy of the account map it is given:
\* after a successful call the map passed in holds the balance and nonce every
\* account had before the block.
C24_PassedMapKeptOnSuccess ==
    (op = "apply" /\ err = "" /\ origin # NoState) =>
        verify_and_get_changes(origin.block, calculate_difficulty(origin.state),
                               origin.state.user_states).previous
          = origin.state.user_states

\* C25: fork choice is by cumulative difficulty alone: when every block of
\* new_branch is accepted in order on the rewound chain and the total difficulty
\* that results is strictly greater than old_state's, verify_reorg succeeds and
\* returns that chain, also when it has fewer blocks than old_state's chain.
C25_HeavierChainWins ==
    op = "reorg" =>
        \E replay \in {ApplyAll(CutBack(state, branch[1].height), branch)} :
            (replay.err = ""
             /\ SumDifficulty(replay.state.longest_chain) > state.total_difficulty)
            => /\ err = ""
               /\ new_state # NoState
               /\ new_state.longest_chain = replay.state.longest_chain

C25_Witness ==
    /\ op = "reorg" /\ err = "" /\ new_state # NoState
    /\ Len(new_state.longest_chain) < Len(state.longest_chain)
    /\ new_state.total_difficulty > state.total_difficulty

\* C26: in every reachable chain state calculate_difficulty() is at least 1,
\* whatever the non-decreasing timestamps of the accepted blocks are.
C26_DifficultyAtLeastOne == calculate_difficulty(state) >= 1

\* the transactions of a chain, in chain order
RECURSIVE ChainTransactions(_)
ChainTransactions(chain) ==
    IF chain = <<>> THEN <<>>
    ELSE ChainTransactions(ButLast(chain)) \o Last(chain).transactions

\* C27: no transaction is applied twice along longest_chain, and the transactions
\* of each sender along the chain carry the nonces 0, 1, 2, ... in chain order.
C27_NoReplayNoncesInOrder ==
    \E txs \in {ChainTransactions(state.longest_chain)} :
        /\ \A i, j \in 1..Len(txs) : i # j => txs[i] # txs[j]
        /\ \A i \in 1..Len(txs) :
              txs[i].nonce = SentBy(SubSeq(txs, 1, i - 1), txs[i].sender_hash)

\* the outcome of verify_and_apply_block(block) on the state an undo_last_block left
Reapplied(undone, block) ==
    IF undone.err # "" THEN [err |-> undone.err, state |-> undone.state]
    ELSE verify_and_apply_block(undone.state, block)

\* C28: on every reachable state S with a non-empty chain, undo_last_block and then
\* verify_and_apply_block of the block removed succeed and leave a state equal to
\* S: same chain, same total difficulty, same balance and nonce of every address.
C28_UndoThenReapplyRestores ==
    state.longest_chain # <<>> =>
        \E r \in {Reapplied(undo_last_block(state), Last(state.longest_chain))} :
            r.err = "" /\ SameChainState(r.state, state)

====
